---- MODULE Spec2Model ----
(***************************************************************************)
(* Model of VISUINO's path construction engine                             *)
(* (trunk/visuino/gx/shapes/shapes.py): CornerPath, NotchPath, the         *)
(* outline rebuild GxExamplePaths.updateMetrics and the edit handlers of   *)
(* ExampleMainWindow that drive it.                                        *)
(*                                                                         *)
(* Coordinates are exact: one pixel is Unit sub-units, chosen so that the  *)
(* top length tl = tf * D and the spacing ts = (D - tl)/2 of a notch are   *)
(* integers for every whole-pixel span D and every factor tf given in      *)
(* hundredths (the base slider's value/100).  Rounding of the program's    *)
(* double arithmetic is not modelled.                                      *)
(*                                                                         *)
(* The y axis points down (the code's top-right clockwise diagonal is      *)
(* lineToInc(W, H)), angles are in degrees, 0 = east, positive sweep       *)
(* counter-clockwise as seen on screen.                                    *)
(***************************************************************************)
EXTENDS Integers, Sequences, FiniteSets, TLC

VARIABLES
    corner_size,    \* GxExamplePaths.corner_size: corner -> <<W, H>>
    corner_shape,   \* GxExamplePaths.corner_shape: corner -> shape name
    notch_data,     \* GxExamplePaths.notch_data: notch -> record
    border_path,    \* GxExamplePaths.border_path
    _width,         \* GxExamplePaths._width
    _height,        \* GxExamplePaths._height
    slider,         \* value of every QSlider of ExampleMainWindow
    combo,          \* current text of every QComboBox of ExampleMainWindow
    rebuilds,       \* paths built by updateMetrics during the last handler
    raised,         \* whether a rebuild was abandoned by an exception
    edits,          \* number of user edits made so far
    cpath,          \* the CornerPath constructed last (SpecCorner)
    npath           \* the NotchPath constructed last (SpecNotch)

vars == <<corner_size, corner_shape, notch_data, border_path, _width, _height,
          slider, combo, rebuilds, raised, edits, cpath, npath>>

uivars == <<corner_size, corner_shape, notch_data, border_path, _width,
            _height, slider, combo, rebuilds, raised, edits>>

---------------------------------------------------------------------------
(* Units *)

\* slider_base.value()/100: base factors are hundredths
FcDen == 100

\* sub-units per pixel: tf * D / FcDen and (D - tl) / 2 stay integral
Unit == 2 * FcDen

Px(n) == n * Unit

Abs(n) == IF n < 0 THEN -n ELSE n

\* F applied to the value of e, with e evaluated once
Bind(e, F(_)) == CHOOSE r \in {F(x) : x \in {e}} : TRUE

---------------------------------------------------------------------------
(* GxPainterPath: cursor, relative lines, arcs, splicing *)

\* GxPainterPath(start_point): cursor at start, no segment
NewPath(start) ==
    [start |-> start, cur |-> start, segs |-> <<>>,
     status |-> "ok", arg |-> "", inited |-> TRUE]

\* a construction that raised before the path was initialised
Raised(start, argname) ==
    [start |-> start, cur |-> start, segs |-> <<>>,
     status |-> "InvalidArgument", arg |-> argname, inited |-> FALSE]

\* lineToInc(dx = 0, dy = 0): straight segment from the cursor to cursor + (dx, dy)
LineToInc(path, dx, dy) ==
    Bind(path, LAMBDA p :
        LET to == <<p.cur[1] + dx, p.cur[2] + dy>>
        IN  [p EXCEPT !.cur = to,
                      !.segs = Append(@, [type |-> "Line", from |-> p.cur,
                                          to |-> to, dx |-> dx, dy |-> dy])])

\* cosine and sine of a multiple of 90 degrees
Cos90(a) == CASE a % 360 = 0 -> 1
              [] a % 360 = 90 -> 0
              [] a % 360 = 180 -> -1
              [] a % 360 = 270 -> 0

Sin90(a) == CASE a % 360 = 0 -> 0
              [] a % 360 = 90 -> 1
              [] a % 360 = 180 -> 0
              [] a % 360 = 270 -> -1

\* the point at angle a of the ellipse inscribed in box <<bx, by, bw, bh>>
\* (y axis down, angles counter-clockwise: the point at 90 is the top)
EllipsePoint(bx, by, bw, bh, a) ==
    <<bx + (bw \div 2) + (bw \div 2) * Cos90(a),
      by + (bh \div 2) - (bh \div 2) * Sin90(a)>>

\* arcTo(x, y, w, h, startAngle, sweepLength): the box is absolute; the
\* cursor ends at the arc's terminal point, at angle start + sweep
ArcTo(path, bx, by, bw, bh, a, sweep) ==
    Bind(path, LAMBDA p :
        LET to == EllipsePoint(bx, by, bw, bh, a + sweep)
        IN  [p EXCEPT !.cur = to,
                      !.segs = Append(@, [type |-> "Arc", from |-> p.cur,
                                          to |-> to,
                                          box |-> <<bx, by, bw, bh>>,
                                          begin |-> EllipsePoint(bx, by, bw, bh, a),
                                          start |-> a, sweep |-> sweep])])

\* connectPath(other): other's segments are appended where they are; when
\* other does not start at the cursor, a straight segment from the cursor
\* to other's start joins the two; the cursor moves to other's final
\* cursor.  An other whose construction raised is never connected: the
\* exception leaves the caller, which the path's status records
ConnectPath(path, other) ==
    Bind(<<path, other>>, LAMBDA a :
        LET p == a[1]
            q == a[2]
            joint == IF q.start = p.cur THEN <<>>
                     ELSE <<[type |-> "Line", from |-> p.cur, to |-> q.start,
                             dx |-> q.start[1] - p.cur[1],
                             dy |-> q.start[2] - p.cur[2]]>>
        IN  IF p.status # "ok" THEN p
            ELSE IF q.status # "ok" THEN [p EXCEPT !.status = q.status]
            ELSE [p EXCEPT !.cur = q.cur, !.segs = @ \o joint \o q.segs])

---------------------------------------------------------------------------
(* CornerPath *)

VALID_KINDS == {"bottom-left", "bottom-right", "top-left", "top-right"}

CORNER_VALID_SHAPES == {"trig", "arc", "rect"}

\* shape == 'trig': one diagonal line
CornerTrig(p, W, H, kind, clockwise) ==
    IF clockwise
    THEN CASE kind = "top-right" -> LineToInc(p, W, H)
           [] kind = "bottom-right" -> LineToInc(p, -W, H)
           [] kind = "bottom-left" -> LineToInc(p, -W, -H)
           [] kind = "top-left" -> LineToInc(p, W, -H)
           [] OTHER -> p
    ELSE CASE kind = "top-left" -> LineToInc(p, -W, H)
           [] kind = "bottom-left" -> LineToInc(p, W, H)
           [] kind = "bottom-right" -> LineToInc(p, W, -H)
           [] kind = "top-right" -> LineToInc(p, -W, -H)
           [] OTHER -> p

\* the arc table with the bottom-right clockwise sweep turned the other way
CornerArcWrongSweep(p, W, H, kind, clockwise) ==
    LET x == p.cur[1]
        y == p.cur[2]
    IN  IF clockwise
        THEN CASE kind = "top-right" -> ArcTo(p, x - W, y, 2*W, 2*H, -270, -90)
               [] kind = "bottom-right" -> ArcTo(p, x - 2*W, y - H, 2*W, 2*H, 0, 90)
               [] kind = "bottom-left" -> ArcTo(p, x - W, y - 2*H, 2*W, 2*H, -90, -90)
               [] kind = "top-left" -> ArcTo(p, x, y - H, 2*W, 2*H, -180, -90)
               [] OTHER -> p
        ELSE CASE kind = "top-left" -> ArcTo(p, x - W, y, 2*W, 2*H, 90, 90)
               [] kind = "bottom-left" -> ArcTo(p, x, y - H, 2*W, 2*H, 180, 90)
               [] kind = "bottom-right" -> ArcTo(p, x - W, y - 2*H, 2*W, 2*H, 270, 90)
               [] kind = "top-right" -> ArcTo(p, x - 2*W, y - H, 2*W, 2*H, 0, 90)
               [] OTHER -> p

\* shape == 'arc': one quarter arc in a 2W x 2H box placed from the cursor
CornerArc(p, W, H, kind, clockwise) ==
    LET x == p.cur[1]
        y == p.cur[2]
    IN  IF clockwise
        THEN CASE kind = "top-right" -> ArcTo(p, x - W, y, 2*W, 2*H, -270, -90)
               [] kind = "bottom-right" -> ArcTo(p, x - 2*W, y - H, 2*W, 2*H, 0, -90)
               [] kind = "bottom-left" -> ArcTo(p, x - W, y - 2*H, 2*W, 2*H, -90, -90)
               [] kind = "top-left" -> ArcTo(p, x, y - H, 2*W, 2*H, -180, -90)
               [] OTHER -> p
        ELSE CASE kind = "top-left" -> ArcTo(p, x - W, y, 2*W, 2*H, 90, 90)
               [] kind = "bottom-left" -> ArcTo(p, x, y - H, 2*W, 2*H, 180, 90)
               [] kind = "bottom-right" -> ArcTo(p, x - W, y - 2*H, 2*W, 2*H, 270, 90)
               [] kind = "top-right" -> ArcTo(p, x - 2*W, y - H, 2*W, 2*H, 0, 90)
               [] OTHER -> p

\* the rect table with the clockwise top-right corner drawn downwards first
CornerRectVerticalFirst(p, W, H, kind, clockwise) ==
    IF clockwise
    THEN CASE kind = "top-right" -> LineToInc(LineToInc(p, 0, H), W, 0)
           [] kind = "bottom-right" -> LineToInc(LineToInc(p, 0, H), -W, 0)
           [] kind = "bottom-left" -> LineToInc(LineToInc(p, -W, 0), 0, -H)
           [] kind = "top-left" -> LineToInc(LineToInc(p, 0, -H), W, 0)
           [] OTHER -> p
    ELSE CASE kind = "top-left" -> LineToInc(LineToInc(p, -W, 0), 0, H)
           [] kind = "bottom-left" -> LineToInc(LineToInc(p, 0, H), W, 0)
           [] kind = "bottom-right" -> LineToInc(LineToInc(p, W, 0), 0, -H)
           [] kind = "top-right" -> LineToInc(LineToInc(p, 0, -H), -W, 0)
           [] OTHER -> p

\* shape == 'rect': two axis-aligned lines
CornerRect(p, W, H, kind, clockwise) ==
    IF clockwise
    THEN CASE kind = "top-right" -> LineToInc(LineToInc(p, W, 0), 0, H)
           [] kind = "bottom-right" -> LineToInc(LineToInc(p, 0, H), -W, 0)
           [] kind = "bottom-left" -> LineToInc(LineToInc(p, -W, 0), 0, -H)
           [] kind = "top-left" -> LineToInc(LineToInc(p, 0, -H), W, 0)
           [] OTHER -> p
    ELSE CASE kind = "top-left" -> LineToInc(LineToInc(p, -W, 0), 0, H)
           [] kind = "bottom-left" -> LineToInc(LineToInc(p, 0, H), W, 0)
           [] kind = "bottom-right" -> LineToInc(LineToInc(p, W, 0), 0, -H)
           [] kind = "top-right" -> LineToInc(LineToInc(p, 0, -H), -W, 0)
           [] OTHER -> p

\* validate_arg(name, value, str, valid): the value, or an error raised
ValidateArg(value, valid) == value \in valid

\* str.lower() of the names given as kind and shape
LowerName(name) ==
    CASE name = "Arc" -> "arc"
      [] name = "TRIG" -> "trig"
      [] name = "Top-Right" -> "top-right"
      [] OTHER -> name

\* the constructor with the validation of shape left out
CornerPathShapeUnchecked(start_point, size, shape, kind, clockwise) ==
    LET W == size[1]
        H == size[2]
        k == LowerName(kind)
        sh == LowerName(shape)
    IN  IF ~ValidateArg(kind, VALID_KINDS) THEN Raised(start_point, "kind")
        ELSE LET p == NewPath(start_point)
             IN  CASE sh = "trig" -> CornerTrig(p, W, H, k, clockwise)
                   [] sh = "arc" -> CornerArc(p, W, H, k, clockwise)
                   [] sh = "rect" -> CornerRect(p, W, H, k, clockwise)
                   [] OTHER -> p

\* CornerPath.__init__(start_point, size, shape, kind, clockwise): kind and
\* shape are validated as given and lower-cased afterwards; a shape that no
\* branch matches leaves the path without a segment
CornerPath(start_point, size, shape, kind, clockwise) ==
    LET W == size[1]
        H == size[2]
        k == LowerName(kind)
        sh == LowerName(shape)
    IN  IF ~ValidateArg(kind, VALID_KINDS) THEN Raised(start_point, "kind")
        ELSE IF ~ValidateArg(shape, CORNER_VALID_SHAPES)
        THEN Raised(start_point, "shape")
        ELSE LET p == NewPath(start_point)
             IN  CASE sh = "trig" -> CornerTrig(p, W, H, k, clockwise)
                   [] sh = "arc" -> CornerArc(p, W, H, k, clockwise)
                   [] sh = "rect" -> CornerRect(p, W, H, k, clockwise)
                   [] OTHER -> p

---------------------------------------------------------------------------
(* Text: a str is a sequence of one-character strings *)

Digits == <<"0", "1", "2", "3", "4", "5", "6", "7", "8", "9">>

UpperCase == <<"A", "B", "C", "D", "E", "F", "G", "H", "I", "J", "K", "L", "M",
               "N", "O", "P", "Q", "R", "S", "T", "U", "V", "W", "X", "Y", "Z">>

LowerCase == <<"a", "b", "c", "d", "e", "f", "g", "h", "i", "j", "k", "l", "m",
               "n", "o", "p", "q", "r", "s", "t", "u", "v", "w", "x", "y", "z">>

IsDigit(c) == \E i \in 1..Len(Digits) : Digits[i] = c

DigitVal(c) == (CHOOSE i \in 1..Len(Digits) : Digits[i] = c) - 1

\* str.lower()
Lower(s) ==
    [i \in 1..Len(s) |->
        IF \E k \in 1..Len(UpperCase) : UpperCase[k] = s[i]
        THEN LowerCase[CHOOSE k \in 1..Len(UpperCase) : UpperCase[k] = s[i]]
        ELSE s[i]]

\* str.strip(): leading and trailing blanks removed
Strip(s) ==
    IF \A i \in 1..Len(s) : s[i] = " " THEN <<>>
    ELSE LET a == CHOOSE i \in 1..Len(s) :
                      s[i] # " " /\ \A k \in 1..(i - 1) : s[k] = " "
             b == CHOOSE i \in 1..Len(s) :
                      s[i] # " " /\ \A k \in (i + 1)..Len(s) : s[k] = " "
         IN  SubSeq(s, a, b)

\* str.count(ch)
Count(s, ch) == Cardinality({i \in 1..Len(s) : s[i] = ch})

\* str.split(ch)
RECURSIVE Split(_, _)
Split(s, ch) ==
    IF Count(s, ch) = 0 THEN <<s>>
    ELSE LET i == CHOOSE k \in 1..Len(s) :
                      s[k] = ch /\ \A m \in 1..(k - 1) : s[m] # ch
         IN  <<SubSeq(s, 1, i - 1)>> \o Split(SubSeq(s, i + 1, Len(s)), ch)

\* the number written by a run of digits
RECURSIVE DigitsVal(_)
DigitsVal(s) ==
    IF s = <<>> THEN 0
    ELSE 10 * DigitsVal(SubSeq(s, 1, Len(s) - 1)) + DigitVal(s[Len(s)])

RECURSIVE Pow10(_)
Pow10(n) == IF n = 0 THEN 1 ELSE 10 * Pow10(n - 1)

\* float(text) for plain decimal text: blanks around it are ignored, then an
\* optional sign, digits, an optional point and digits, one digit at least.
\* The value is the fraction num/den; anything else raises.
ParseFloat(text) ==
    Bind(Strip(text), LAMBDA t :
        LET signed == t # <<>> /\ t[1] \in {"+", "-"}
            body == IF signed THEN SubSeq(t, 2, Len(t)) ELSE t
        IN  Bind(Split(body, "."), LAMBDA parts :
                LET ip == parts[1]
                    fp == IF Len(parts) = 2 THEN parts[2] ELSE <<>>
                    wellformed == /\ Len(parts) <= 2
                                  /\ \A i \in 1..Len(ip) : IsDigit(ip[i])
                                  /\ \A i \in 1..Len(fp) : IsDigit(fp[i])
                                  /\ Len(ip) + Len(fp) > 0
                    mag == DigitsVal(ip) * Pow10(Len(fp)) + DigitsVal(fp)
                IN  IF ~wellformed THEN [ok |-> FALSE, num |-> 0, den |-> 1]
                    ELSE [ok |-> TRUE,
                          num |-> IF signed /\ t[1] = "-" THEN -mag ELSE mag,
                          den |-> Pow10(Len(fp))]))

\* the factor written as a percentage: '70.0' for 0.7
FormatFloatPercent(k) ==
    (IF k >= 100 THEN <<Digits[(k \div 100) + 1]>> ELSE <<>>)
    \o (IF k >= 10 THEN <<Digits[((k \div 10) % 10) + 1]>> ELSE <<>>)
    \o <<Digits[(k % 10) + 1], ".", "0">>

\* str(k/100.0) for a whole number of hundredths k >= 0: the shortest
\* decimal, with one fractional digit at least ('0.7', '0.07', '1.0')
FormatFloat(k) ==
    LET ip == k \div FcDen
        fr == k % FcDen
        whole == IF ip < 10 THEN <<Digits[ip + 1]>>
                 ELSE <<Digits[(ip \div 10) + 1], Digits[(ip % 10) + 1]>>
    IN  whole \o <<".">> \o
        (IF fr % 10 = 0 THEN <<Digits[(fr \div 10) + 1]>>
         ELSE <<Digits[(fr \div 10) + 1], Digits[(fr % 10) + 1]>>)

---------------------------------------------------------------------------
(* NotchPath *)

NOTCH_VALID_SHAPES == {<<"t", "r", "i", "g", "/", "%", "f">>,
                       <<"a", "r", "c", "/", "%", "f">>}

VALID_DIRECTIONS == {<<"+", "i">>, <<"-", "i">>, <<"+", "j">>, <<"-", "j">>}

\* valid_shapes = [x.split('/')[0] for x in self.VALID_SHAPES]
valid_shapes == {Split(x, "/")[1] : x \in NOTCH_VALID_SHAPES}

\* validate_arg(name, value, float, range_='0.0|1.0'): 0.0 <= value <= 1.0
InRange01(tf) == 0 <= tf.num /\ tf.num <= tf.den

\* the shape argument parsed: the name, and the top factor tf as a fraction
\* (tf = float(sp[1]) if sp[1].strip() != '' else 0.0)
ParseShape(shape) ==
    Bind(Strip(shape), LAMBDA s :
        LET zero == [num |-> 0, den |-> 1]
            bad == [ok |-> FALSE, name |-> <<>>, tf |-> zero]
        IN  IF Count(s, "/") = 0
            THEN IF ValidateArg(s, valid_shapes)
                 THEN [ok |-> TRUE, name |-> s, tf |-> zero] ELSE bad
            ELSE Bind(Split(s, "/"), LAMBDA sp :
                     Bind(ParseFloat(sp[2]), LAMBDA fl :
                         LET name == Strip(sp[1])
                             tf == IF Strip(sp[2]) # <<>>
                                   THEN [num |-> fl.num, den |-> fl.den]
                                   ELSE zero
                         IN  IF ~ValidateArg(name, valid_shapes) THEN bad
                             ELSE IF Strip(sp[2]) # <<>> /\ ~fl.ok THEN bad
                             ELSE IF ~InRange01(tf) THEN bad
                             ELSE [ok |-> TRUE, name |-> name, tf |-> tf])))

\* the span taken for every direction from the width
SpanAlwaysWidth(direction, W, H) == W

\* the side of the rectangle along the direction axis: H if
\* direction[1] == 'j' (vertical), W otherwise
Span(direction, W, H) == IF direction[2] = "j" THEN H ELSE W

\* the top length with the factor ignored
TopLengthIgnoresFactor(tf, D) == 0

\* top lenght: tl = tf * H (vertical) or tf * W (horizontal)
TopLength(tf, D) == (tf.num * D) \div tf.den

\* the spacing without the halving
TopSpacingNoHalf(tf, D) == D - TopLength(tf, D)

\* top spacing: ts = (H - tl)/2 or (W - tl)/2
TopSpacing(tf, D) == (D - TopLength(tf, D)) \div 2

\* shape == 'trig': spacing leg, top, spacing leg
NotchTrig(p, W, H, tl, ts, direction, facing) ==
    LET L3(a, b, c, d, e, f) ==
            LineToInc(LineToInc(LineToInc(p, a, b), c, d), e, f)
    IN  CASE direction = <<"+", "j">> /\ facing = <<"l", "e", "f", "t">> ->
                 L3(-W, ts, 0, tl, W, ts)
          [] direction = <<"+", "j">> /\ facing = <<"r", "i", "g", "h", "t">> ->
                 L3(W, ts, 0, tl, -W, ts)
          [] direction = <<"-", "j">> /\ facing = <<"l", "e", "f", "t">> ->
                 L3(-W, -ts, 0, -tl, W, -ts)
          [] direction = <<"-", "j">> /\ facing = <<"r", "i", "g", "h", "t">> ->
                 L3(W, -ts, 0, -tl, -W, -ts)
          [] direction = <<"+", "i">> /\ facing = <<"u", "p">> ->
                 L3(ts, -H, tl, 0, ts, H)
          [] direction = <<"+", "i">> /\ facing = <<"d", "o", "w", "n">> ->
                 L3(ts, H, tl, 0, ts, -H)
          [] direction = <<"-", "i">> /\ facing = <<"u", "p">> ->
                 L3(-ts, -H, -tl, 0, -ts, H)
          [] direction = <<"-", "i">> /\ facing = <<"d", "o", "w", "n">> ->
                 L3(-ts, H, -tl, 0, -ts, -H)

\* arcTo with the box placed at (ox, oy), the cursor left out
ArcBoxAtOrigin(path, ox, oy, bw, bh, a, sweep) ==
    ArcTo(path, ox, oy, bw, bh, a, sweep)

\* arcTo with the box placed at (self.x + ox, self.y + oy), the cursor being
\* read when the call is made
ArcFromCursor(path, ox, oy, bw, bh, a, sweep) ==
    Bind(path, LAMBDA q :
        ArcTo(q, q.cur[1] + ox, q.cur[2] + oy, bw, bh, a, sweep))

\* shape == 'arc': arc, line, arc
NotchArc(p, W, H, tl, ts, direction, facing) ==
    LET A1(ox, oy, bw, bh, a, sw) == ArcFromCursor(p, ox, oy, bw, bh, a, sw)
        A3(q, ox, oy, bw, bh, a, sw) == ArcFromCursor(q, ox, oy, bw, bh, a, sw)
    IN  CASE direction = <<"+", "j">> /\ facing = <<"l", "e", "f", "t">> ->
                 A3(LineToInc(A1(-W, 0, 2*W, 2*ts, 90, 90), 0, tl),
                    0, -ts, 2*W, 2*ts, 180, 90)
          [] direction = <<"+", "j">> /\ facing = <<"r", "i", "g", "h", "t">> ->
                 A3(LineToInc(A1(-W, 0, 2*W, 2*ts, 90, -90), 0, tl),
                    -2*W, -ts, 2*W, 2*ts, 0, -90)
          [] direction = <<"-", "j">> /\ facing = <<"l", "e", "f", "t">> ->
                 A3(LineToInc(A1(-W, -2*ts, 2*W, 2*ts, -90, -90), 0, -tl),
                    0, -ts, 2*W, 2*ts, 180, -90)
          [] direction = <<"-", "j">> /\ facing = <<"r", "i", "g", "h", "t">> ->
                 A3(LineToInc(A1(-W, -2*ts, 2*W, 2*ts, -90, 90), 0, -tl),
                    -2*W, -ts, 2*W, 2*ts, 0, 90)
          [] direction = <<"+", "i">> /\ facing = <<"u", "p">> ->
                 A3(LineToInc(A1(0, -H, 2*ts, 2*H, 180, -90), tl, 0),
                    -ts, 0, 2*ts, 2*H, 90, -90)
          [] direction = <<"+", "i">> /\ facing = <<"d", "o", "w", "n">> ->
                 A3(LineToInc(A1(0, -H, 2*ts, 2*H, 180, 90), tl, 0),
                    -ts, -2*H, 2*ts, 2*H, -90, 90)
          [] direction = <<"-", "i">> /\ facing = <<"u", "p">> ->
                 A3(LineToInc(A1(-2*ts, -H, 2*ts, 2*H, 0, 90), -tl, 0),
                    -ts, 0, 2*ts, 2*H, 90, 90)
          [] direction = <<"-", "i">> /\ facing = <<"d", "o", "w", "n">> ->
                 A3(LineToInc(A1(-2*ts, -H, 2*ts, 2*H, 0, -90), -tl, 0),
                    -ts, -2*H, 2*ts, 2*H, -90, -90)

\* every facing accepted for every direction
ValidFacingsAny(direction) ==
    {<<"l", "e", "f", "t">>, <<"r", "i", "g", "h", "t">>,
     <<"u", "p">>, <<"d", "o", "w", "n">>}

\* the facings accepted for a direction: direction[1] == 'j' is vertical
ValidFacings(direction) ==
    IF direction[2] = "j"
    THEN {<<"l", "e", "f", "t">>, <<"r", "i", "g", "h", "t">>}
    ELSE {<<"u", "p">>, <<"d", "o", "w", "n">>}

\* NotchPath.__init__(start_point, rect_size, shape, direction, facing):
\* direction, facing and shape are checked in this order, then the path is
\* initialised and the segments are added
NotchPath(start_point, rect_size, shape, direction, facing) ==
    Bind([dir |-> Lower(direction), fac |-> Lower(facing),
          ps |-> ParseShape(shape)], LAMBDA v :
        LET W == rect_size[1]
            H == rect_size[2]
            D == Span(v.dir, W, H)
            tl == TopLength(v.ps.tf, D)
            ts == TopSpacing(v.ps.tf, D)
            p == NewPath(start_point)
        IN  IF ~ValidateArg(v.dir, VALID_DIRECTIONS)
            THEN Raised(start_point, "direction")
            ELSE IF ~ValidateArg(v.fac, ValidFacings(v.dir))
            THEN Raised(start_point, "facing")
            ELSE IF ~v.ps.ok THEN Raised(start_point, "shape")
            ELSE CASE v.ps.name = <<"t", "r", "i", "g">> ->
                          NotchTrig(p, W, H, tl, ts, v.dir, v.fac)
                   [] v.ps.name = <<"a", "r", "c">> ->
                          NotchArc(p, W, H, tl, ts, v.dir, v.fac))

---------------------------------------------------------------------------
(* GxExamplePaths: the parameter records and the outline rebuild *)

Corners == {"tl", "tr", "bl", "br"}

Notches == {"top", "bottom", "left", "right"}

\* QPainterPath.boundingRect(): the smallest axis-aligned box holding the
\* path; a quarter arc between multiples of 90 degrees lies inside the box
\* of its two end points
BoundingRect(path) ==
    Bind({path.start} \cup {path.segs[i].from : i \in 1..Len(path.segs)}
                      \cup {path.segs[i].to : i \in 1..Len(path.segs)},
         LAMBDA pts :
        LET minx == CHOOSE a \in {q[1] : q \in pts} : \A q \in pts : a <= q[1]
            maxx == CHOOSE a \in {q[1] : q \in pts} : \A q \in pts : a >= q[1]
            miny == CHOOSE a \in {q[2] : q \in pts} : \A q \in pts : a <= q[2]
            maxy == CHOOSE a \in {q[2] : q \in pts} : \A q \in pts : a >= q[2]
        IN  [x |-> minx, y |-> miny,
             width |-> maxx - minx, height |-> maxy - miny])

\* a QSizeF given in pixels, in sub-units
SizeF(size) == <<Px(size[1]), Px(size[2])>>

\* getNotch with the notch placed at the start of the outline instead of
\* its cursor
GetNotchAtOutlineStart(g, path, notch, direction) ==
    NotchPath(path.start, SizeF(g.notch_data[notch].size),
              g.notch_data[notch].shape \o <<"/">>
                  \o FormatFloat(g.notch_data[notch].base_fc),
              direction, g.notch_data[notch].facing)

\* getNotch(path, notch, direction): the notch starts at the path's cursor
\* and its shape text is shape + '/' + str(base_fc)
GetNotch(g, path, notch, direction) ==
    NotchPath(path.cur, SizeF(g.notch_data[notch].size),
              g.notch_data[notch].shape \o <<"/">>
                  \o FormatFloat(g.notch_data[notch].base_fc),
              direction, g.notch_data[notch].facing)

\* CornerPath(path.currentPosition(), corner_size[c], corner_shape[c], kind)
GetCorner(g, path, corner, kind) ==
    CornerPath(path.cur, SizeF(g.corner_size[corner]), g.corner_shape[corner],
               kind, TRUE)

\* the calls updateMetrics makes on the path, in order
OutlineSteps ==
    <<[op |-> "line", dx |-> 100, dy |-> 0],
      [op |-> "notch", notch |-> "top", direction |-> <<"+", "i">>],
      [op |-> "line", dx |-> 100, dy |-> 0],
      [op |-> "corner", corner |-> "tr", kind |-> "top-right"],
      [op |-> "line", dx |-> 0, dy |-> 50],
      [op |-> "notch", notch |-> "right", direction |-> <<"+", "j">>],
      [op |-> "line", dx |-> 0, dy |-> 50],
      [op |-> "corner", corner |-> "br", kind |-> "bottom-right"],
      [op |-> "line", dx |-> -100, dy |-> 0],
      [op |-> "notch", notch |-> "bottom", direction |-> <<"-", "i">>],
      [op |-> "line", dx |-> -100, dy |-> 0],
      [op |-> "corner", corner |-> "bl", kind |-> "bottom-left"],
      [op |-> "line", dx |-> 0, dy |-> -50],
      [op |-> "notch", notch |-> "left", direction |-> <<"-", "j">>],
      [op |-> "line", dx |-> 0, dy |-> -50],
      [op |-> "corner", corner |-> "tl", kind |-> "top-left"]>>

\* one call of updateMetrics on the path
OutlineStep(g, path, step) ==
    CASE step.op = "line" -> LineToInc(path, Px(step.dx), Px(step.dy))
      [] step.op = "notch" ->
             ConnectPath(path, GetNotch(g, path, step.notch, step.direction))
      [] step.op = "corner" ->
             ConnectPath(path, GetCorner(g, path, step.corner, step.kind))

\* the path after the first n calls; its status tells whether a sub-path
\* construction raised on the way
RECURSIVE OutlineAfter(_, _)
OutlineAfter(g, n) ==
    IF n = 0 THEN NewPath(<<Px(100), 0>>)
    ELSE Bind(OutlineAfter(g, n - 1), LAMBDA path :
             OutlineStep(g, path, OutlineSteps[n]))

\* the path assembled by updateMetrics
BuildOutline(g) == OutlineAfter(g, Len(OutlineSteps))

\* updateMetrics(): border_path, _width and _height are replaced together;
\* a construction that raises leaves all three as they were
UpdateMetrics(state) ==
    Bind(state, LAMBDA g :
        Bind(BuildOutline(g), LAMBDA path :
            Bind(BoundingRect(path), LAMBDA rect :
                IF path.status = "ok"
                THEN [g EXCEPT !.border_path = path,
                               !._width = rect.width,
                               !._height = rect.height,
                               !.rebuilds = Append(@, [start |-> path.start,
                                                       cur |-> path.cur])]
                ELSE [g EXCEPT !.raised = TRUE])))

\* setNotchData with the rebuild left out
SetNotchDataNoUpdate(g, notch, data, value) ==
    [g EXCEPT !.notch_data[notch][data] = value]

\* setNotchData(notch, data, value)
SetNotchData(g, notch, data, value) ==
    UpdateMetrics([g EXCEPT !.notch_data[notch][data] = value])

---------------------------------------------------------------------------
(* ExampleMainWindow: sliders, combo boxes and their handlers *)

\* wg_slider_<corner>_corner_size_<d>, wg_slider_<notch>_notch_size_<d> and
\* the base slider of each notch group box
CornerSliders == {<<"corner", c, d>> : c \in Corners, d \in {"w", "h"}}

NotchSliders == {<<"notch", n, d>> : n \in Notches, d \in {"w", "h"}}

BaseSliders == {<<"base", n, "fc">> : n \in Notches}

Sliders == CornerSliders \cup NotchSliders \cup BaseSliders

\* setRange(0, ...) of each slider
SliderMax(id) ==
    CASE id[1] = "corner" -> 100
      [] id[1] = "base" -> 100
      [] id[1] = "notch" /\ id[3] = "w" ->
             IF id[2] \in {"top", "bottom"} THEN 300 ELSE 100
      [] id[1] = "notch" /\ id[3] = "h" ->
             IF id[2] \in {"top", "bottom"} THEN 100 ELSE 300

\* the follow table with the width of 'tl' tied to 'tr'
CornerFollowWrongPair(corner, dimension) ==
    CASE corner = "bl" -> IF dimension = "w" THEN "tl" ELSE "br"
      [] corner = "br" -> IF dimension = "w" THEN "tr" ELSE "bl"
      [] corner = "tl" -> IF dimension = "w" THEN "tr" ELSE "tr"
      [] corner = "tr" -> IF dimension = "w" THEN "br" ELSE "tl"

\* the corner whose size follows an edit: follow_w and follow_h of initUI
CornerFollow(corner, dimension) ==
    CASE corner = "bl" -> IF dimension = "w" THEN "tl" ELSE "br"
      [] corner = "br" -> IF dimension = "w" THEN "tr" ELSE "bl"
      [] corner = "tl" -> IF dimension = "w" THEN "bl" ELSE "tr"
      [] corner = "tr" -> IF dimension = "w" THEN "br" ELSE "tl"

\* the follow table with no notch following the width of 'top'
NotchFollowTopAlone(notch, dimension) ==
    CASE notch = "top" -> "None"
      [] notch = "bottom" -> IF dimension = "w" THEN "top" ELSE "None"
      [] notch = "left" -> IF dimension = "w" THEN "None" ELSE "right"
      [] notch = "right" -> IF dimension = "w" THEN "None" ELSE "left"

\* the notch whose size follows an edit, or "None"
NotchFollow(notch, dimension) ==
    CASE notch = "top" -> IF dimension = "w" THEN "bottom" ELSE "None"
      [] notch = "bottom" -> IF dimension = "w" THEN "top" ELSE "None"
      [] notch = "left" -> IF dimension = "w" THEN "None" ELSE "right"
      [] notch = "right" -> IF dimension = "w" THEN "None" ELSE "left"

\* a QSizeF with one dimension replaced
WithDim(size, dimension, value) ==
    IF dimension = "w" THEN <<value, size[2]>> ELSE <<size[1], value>>

RECURSIVE SetValue(_, _, _)
RECURSIVE SetNotchSize(_, _, _, _, _)
RECURSIVE SetCornerSize(_, _, _, _, _)

\* QSlider.setValue(value): the value is kept inside the range, and
\* valueChanged runs the connected handler only when the value changes
SetValue(state, id, value) ==
    Bind(state, LAMBDA g :
        LET v == IF value < 0 THEN 0
                 ELSE IF value > SliderMax(id) THEN SliderMax(id) ELSE value
            g1 == [g EXCEPT !.slider[id] = v]
        IN  IF g.slider[id] = v THEN g
            ELSE CASE id[1] = "corner" ->
                          SetCornerSize(g1, id, id[3], id[2],
                                        CornerFollow(id[2], id[3]))
                   [] id[1] = "notch" ->
                          SetNotchSize(g1, id[3], id[2],
                                       NotchFollow(id[2], id[3]), id)
                   [] id[1] = "base" ->
                          SetNotchData(g1, id[2], "base_fc",
                                       (v * FcDen) \div 100))

\* setNotchSize(dimension, notch, follow_notch, slider)
SetNotchSize(state, dimension, notch, follow_notch, sl) ==
    Bind(state, LAMBDA g :
        LET value == g.slider[sl]
            g1 == [g EXCEPT !.notch_data[notch].size =
                                WithDim(@, dimension, value)]
        IN  IF follow_notch # "None"
            THEN UpdateMetrics(
                     SetValue([g1 EXCEPT !.notch_data[follow_notch].size =
                                             WithDim(@, dimension, value)],
                              <<"notch", follow_notch, dimension>>, value))
            ELSE UpdateMetrics(g1))

\* setCornerSize(slider, dimension, corner, follow_corner)
SetCornerSize(state, sl, dimension, corner, follow_corner) ==
    Bind(state, LAMBDA g :
        LET value == g.slider[sl]
            g1 == [g EXCEPT !.corner_size[corner] =
                                WithDim(@, dimension, value)]
            g2 == [g1 EXCEPT !.corner_size[follow_corner] =
                                 WithDim(@, dimension, value)]
        IN  UpdateMetrics(
                SetValue(g2, <<"corner", follow_corner, dimension>>, value)))

\* setCornerShape(cbx, corner)
SetCornerShape(g, cbx, corner) ==
    UpdateMetrics([g EXCEPT !.corner_shape[corner] = g.combo[cbx]])

\* the combo boxes and the items each was filled with
Combos == {<<"corner_shape", c>> : c \in Corners}
              \cup {<<"shape", n>> : n \in Notches}
              \cup {<<"facing", n>> : n \in Notches}

ComboItems(id) ==
    CASE id[1] = "corner_shape" -> {"trig", "arc", "rect"}
      [] id[1] = "shape" -> {<<"t", "r", "i", "g">>, <<"a", "r", "c">>}
      [] id[1] = "facing" ->
             IF id[2] \in {"top", "bottom"}
             THEN {<<"u", "p">>, <<"d", "o", "w", "n">>}
             ELSE {<<"l", "e", "f", "t">>, <<"r", "i", "g", "h", "t">>}

\* currentIndexChanged: the handler connected to the combo box
ComboChanged(g, id) ==
    IF id[1] = "corner_shape" THEN SetCornerShape(g, id, id[2])
    ELSE SetNotchData(g, id[2], id[1], g.combo[id])

---------------------------------------------------------------------------
(* State, construction and the user's edits *)

\* number of user edits explored from the constructed window
MaxEdits == 2

\* the object state the handlers work on
State ==
    [corner_size |-> corner_size, corner_shape |-> corner_shape,
     notch_data |-> notch_data, border_path |-> border_path,
     _width |-> _width, _height |-> _height, slider |-> slider,
     combo |-> combo, rebuilds |-> rebuilds, raised |-> raised]

\* GxExamplePaths.__init__: DEFAULT_SIZE, the default records, then
\* updateMetrics(); ExampleMainWindow.initUI: every slider and combo box is
\* set from the records before its signal is connected
Constructed ==
    LET nd(size, facing) == [shape |-> <<"a", "r", "c">>, base_fc |-> 70,
                             size |-> size, facing |-> facing]
        notches == [n \in Notches |->
                       CASE n = "top" -> nd(<<200, 50>>, <<"u", "p">>)
                         [] n = "bottom" -> nd(<<200, 50>>, <<"u", "p">>)
                         [] n = "left" ->
                                nd(<<50, 150>>, <<"r", "i", "g", "h", "t">>)
                         [] n = "right" ->
                                nd(<<50, 150>>, <<"r", "i", "g", "h", "t">>)]
        g0 == [corner_size |-> [c \in Corners |-> <<50, 50>>],
               corner_shape |-> [c \in Corners |-> "arc"],
               notch_data |-> notches,
               border_path |-> [status |-> "None"],
               _width |-> Px(200), _height |-> Px(100),
               slider |-> [id \in Sliders |->
                              CASE id[1] = "corner" -> 50
                                [] id[1] = "base" ->
                                       (notches[id[2]].base_fc * 100) \div FcDen
                                [] id[1] = "notch" /\ id[3] = "w" ->
                                       notches[id[2]].size[1]
                                [] id[1] = "notch" /\ id[3] = "h" ->
                                       notches[id[2]].size[2]],
               combo |-> [id \in Combos |->
                             CASE id[1] = "corner_shape" -> "arc"
                               [] id[1] = "shape" -> notches[id[2]].shape
                               [] id[1] = "facing" -> notches[id[2]].facing],
               rebuilds |-> <<>>, raised |-> FALSE]
    IN  UpdateMetrics(g0)

\* the values the user moves a slider to: the value it was constructed with
\* and one other, different for each slider
SliderStops(id) ==
    {Constructed.slider[id]} \cup
    (CASE id[1] = "corner" ->
              (CASE id[2] = "tl" -> {30} [] id[2] = "tr" -> {100}
                 [] id[2] = "bl" -> {0} [] id[2] = "br" -> {80})
       [] id[1] = "base" ->
              (CASE id[2] = "top" -> {0} [] id[2] = "bottom" -> {100}
                 [] id[2] = "left" -> {37} [] id[2] = "right" -> {5})
       [] id[1] = "notch" ->
              (CASE id[2] = "top" -> {SliderMax(id)} [] id[2] = "bottom" -> {0}
                 [] id[2] = "left" -> {20} [] id[2] = "right" -> {80}))

NoPath == [made |-> FALSE]

Init ==
    /\ \E g \in {Constructed} :
           /\ corner_size = g.corner_size
           /\ corner_shape = g.corner_shape
           /\ notch_data = g.notch_data
           /\ border_path = g.border_path
           /\ _width = g._width
           /\ _height = g._height
           /\ slider = g.slider
           /\ combo = g.combo
           /\ rebuilds = g.rebuilds
           /\ raised = g.raised
    /\ edits = 0
    /\ cpath = NoPath
    /\ npath = NoPath

\* the handler's result becomes the window's state
Becomes(g) ==
    /\ corner_size' = g.corner_size
    /\ corner_shape' = g.corner_shape
    /\ notch_data' = g.notch_data
    /\ border_path' = g.border_path
    /\ _width' = g._width
    /\ _height' = g._height
    /\ slider' = g.slider
    /\ combo' = g.combo
    /\ rebuilds' = g.rebuilds
    /\ raised' = g.raised
    /\ edits' = edits + 1
    /\ UNCHANGED <<cpath, npath>>

\* the user moves slider id to value: valueChanged runs its handler
MoveSlider(id, value) ==
    /\ edits < MaxEdits
    /\ value \in 0..SliderMax(id)
    /\ value # slider[id]
    /\ \E g \in {SetValue([State EXCEPT !.rebuilds = <<>>], id, value)} :
           Becomes(g)

\* the user picks item text in combo box id: currentIndexChanged runs its
\* handler
PickItem(id, text) ==
    /\ edits < MaxEdits
    /\ text # combo[id]
    /\ \E g \in {ComboChanged([State EXCEPT !.rebuilds = <<>>,
                                            !.combo[id] = text], id)} :
           Becomes(g)

EditCornerSize == \E id \in CornerSliders : \E v \in SliderStops(id) : MoveSlider(id, v)

EditNotchSize == \E id \in NotchSliders : \E v \in SliderStops(id) : MoveSlider(id, v)

EditNotchBase == \E id \in BaseSliders : \E v \in SliderStops(id) : MoveSlider(id, v)

EditCornerShape ==
    \E c \in Corners : \E t \in ComboItems(<<"corner_shape", c>>) :
        PickItem(<<"corner_shape", c>>, t)

EditNotchShape ==
    \E n \in Notches : \E t \in ComboItems(<<"shape", n>>) :
        PickItem(<<"shape", n>>, t)

EditNotchFacing ==
    \E n \in Notches : \E t \in ComboItems(<<"facing", n>>) :
        PickItem(<<"facing", n>>, t)

\* the edits of the user, one handler call each
Next ==
    \/ EditCornerSize
    \/ EditNotchSize
    \/ EditNotchBase
    \/ EditCornerShape
    \/ EditNotchShape
    \/ EditNotchFacing

Spec == Init /\ [][Next]_vars

---------------------------------------------------------------------------
(* Constructions of single corner and notch paths *)

CornerStarts == {<<0, 0>>, <<Px(300), -Px(20)>>}

CornerSizes == {<<50, 50>>, <<30, 80>>, <<100, 0>>, <<0, 0>>}

CornerShapeArgs == CORNER_VALID_SHAPES \cup {"circle", "Arc", "TRIG", ""}

CornerKindArgs == VALID_KINDS \cup {"middle", "Top-Right", "topright"}

\* CornerPath(start_point, size, shape, kind, clockwise) is constructed
NewCornerPath ==
    /\ ~cpath.made
    /\ ~npath.made
    /\ \E start_point \in CornerStarts, size \in CornerSizes,
          shape \in CornerShapeArgs, kind \in CornerKindArgs,
          clockwise \in BOOLEAN :
           \E obj \in {CornerPath(start_point, SizeF(size), shape, kind,
                                  clockwise)} :
               cpath' = [made |-> TRUE, start_point |-> start_point,
                         size |-> SizeF(size), shape |-> shape, kind |-> kind,
                         clockwise |-> clockwise, obj |-> obj,
                         \* the same corner drawn the other way round, from
                         \* the cursor obj ended at
                         back |-> CornerPath(obj.cur, SizeF(size), shape, kind,
                                             ~clockwise)]
    /\ UNCHANGED <<uivars, npath>>

SpecCorner == Init /\ [][NewCornerPath]_vars

NotchStarts == {<<0, 0>>, <<Px(100), -Px(40)>>}

NotchSizes == {<<200, 50>>, <<50, 150>>, <<77, 33>>, <<0, 0>>}

\* shape texts: plain names, names with a factor, blanks, malformed texts
ShapeTexts ==
    {<<"t", "r", "i", "g">>,
     <<"a", "r", "c">>,
     <<"t", "r", "i", "g", "/", "0", ".", "4">>,
     <<"a", "r", "c", "/", "0", ".", "7">>,
     <<"t", "r", "i", "g", "/">>,
     <<"a", "r", "c", "/", " ">>,
     <<"t", "r", "i", "g", "/", "1", ".", "0">>,
     <<"a", "r", "c", "/", "1">>,
     <<"t", "r", "i", "g", "/", "0">>,
     <<"a", "r", "c", "/", "0", ".", "0">>,
     <<" ", "t", "r", "i", "g", " ", "/", " ", "0", ".", "3", "7", " ">>,
     <<"a", "r", "c", "/", ".", "5">>,
     <<"t", "r", "i", "g", "/", "1", ".", "5">>,
     <<"a", "r", "c", "/", "1", ".", "0", "1">>,
     <<"a", "r", "c", "/", "-", "0", ".", "1">>,
     <<"t", "r", "i", "g", "/", "x">>,
     <<"a", "r", "c", "/", "0", ".", "5", "x">>,
     <<"a", "r", "c", "/", ".">>,
     <<"r", "e", "c", "t">>,
     <<"r", "e", "c", "t", "/", "0", ".", "5">>,
     <<"/", "0", ".", "5">>,
     <<>>,
     <<"t", "r", "i", "g", "/", "0", ".", "5", "/", "x">>,
     <<"a", "r", "c", "/", "/", "0", ".", "5">>}

DirectionArgs ==
    VALID_DIRECTIONS \cup {<<"+", "I">>, <<"-", "J">>, <<"+", "k">>, <<"i">>, <<>>}

FacingArgs ==
    {<<"u", "p">>, <<"d", "o", "w", "n">>, <<"l", "e", "f", "t">>,
     <<"r", "i", "g", "h", "t">>, <<"U", "P">>, <<"L", "e", "f", "t">>,
     <<"n", "o", "r", "t", "h">>}

\* NotchPath(start_point, rect_size, shape, direction, facing) is constructed
NewNotchPath ==
    /\ ~npath.made
    /\ ~cpath.made
    /\ \E start_point \in NotchStarts, size \in NotchSizes,
          shape \in ShapeTexts, direction \in DirectionArgs,
          facing \in FacingArgs :
           npath' = [made |-> TRUE, start_point |-> start_point,
                     rect_size |-> SizeF(size), shape |-> shape,
                     direction |-> direction, facing |-> facing,
                     obj |-> NotchPath(start_point, SizeF(size), shape,
                                       direction, facing)]
    /\ UNCHANGED <<uivars, cpath>>

SpecNotch == Init /\ [][NewNotchPath]_vars

\* one corner path or one notch path is constructed
SpecPaths == Init /\ [][NewCornerPath \/ NewNotchPath]_vars

---------------------------------------------------------------------------
(* Properties of CornerPath, under SpecCorner *)

\* the corner path constructed last was built without an error
CornerBuilt == cpath.made /\ cpath.obj.status = "ok"

\* the displacement of a path from its start to its final cursor
Displacement(obj) == <<obj.cur[1] - obj.start[1], obj.cur[2] - obj.start[2]>>

\* signs of the move across a corner on a clockwise tour of a rectangle
\* drawn with the y axis down: right then down at the top-right, and so on;
\* the counter-clockwise tour makes the opposite move
TourSigns(kind, clockwise) ==
    LET cw == CASE kind = "top-right" -> <<1, 1>>
                [] kind = "bottom-right" -> <<-1, 1>>
                [] kind = "bottom-left" -> <<-1, -1>>
                [] kind = "top-left" -> <<1, -1>>
    IN  IF clockwise THEN cw ELSE <<-cw[1], -cw[2]>>

\* C1: for every start, size, kind and winding, the corner paths of shape
\* 'trig', 'arc' and 'rect' end at one and the same cursor, the vertex of the
\* W x H corner rectangle diagonally opposite to start: the displacement is
\* W across and H down or up, with signs fixed by kind and winding alone.
C1_CornerEndsAtOppositeVertex ==
    CornerBuilt =>
        LET d == Displacement(cpath.obj)
            sg == TourSigns(cpath.kind, cpath.clockwise)
        IN  /\ Abs(d[1]) = cpath.size[1]
            /\ Abs(d[2]) = cpath.size[2]
            /\ d = <<sg[1] * cpath.size[1], sg[2] * cpath.size[2]>>
            /\ cpath.obj.start = cpath.start_point

\* a counter-clockwise arc corner of size 30 x 80 built away from the origin
\* ends 30 to the right of and 80 above its start
C1_Witness ==
    /\ CornerBuilt
    /\ cpath.shape = "arc" /\ cpath.kind = "bottom-right" /\ ~cpath.clockwise
    /\ cpath.size = <<Px(30), Px(80)>>
    /\ cpath.start_point = <<Px(300), -Px(20)>>
    /\ cpath.obj.cur = <<Px(330), -Px(100)>>

\* the arc of an 'arc' corner as the table gives it: box origin relative
\* to the cursor, start angle, sweep angle
ArcTable(kind, clockwise, W, H) ==
    IF clockwise
    THEN CASE kind = "top-right" -> <<-W, 0, -270, -90>>
           [] kind = "bottom-right" -> <<-2 * W, -H, 0, -90>>
           [] kind = "bottom-left" -> <<-W, -2 * H, -90, -90>>
           [] kind = "top-left" -> <<0, -H, -180, -90>>
    ELSE CASE kind = "top-left" -> <<-W, 0, 90, 90>>
           [] kind = "bottom-left" -> <<0, -H, 180, 90>>
           [] kind = "bottom-right" -> <<-W, -2 * H, 270, 90>>
           [] kind = "top-right" -> <<-2 * W, -H, 0, 90>>

\* C6: an 'arc' corner is exactly one arc; its box is 2W x 2H and its box
\* origin (relative to the cursor the path starts at), start angle and sweep
\* are those of the table, for each kind and winding.
C6_CornerArcTable ==
    (CornerBuilt /\ cpath.shape = "arc") =>
        LET segs == cpath.obj.segs
            x == cpath.start_point[1]
            y == cpath.start_point[2]
            t == ArcTable(cpath.kind, cpath.clockwise,
                          cpath.size[1], cpath.size[2])
        IN  /\ Len(segs) = 1
            /\ segs[1].type = "Arc"
            /\ segs[1].from = <<x, y>>
            /\ segs[1].box = <<x + t[1], y + t[2],
                               2 * cpath.size[1], 2 * cpath.size[2]>>
            /\ segs[1].start = t[3]
            /\ segs[1].sweep = t[4]

\* a clockwise top-left arc corner of size 30 x 80 from the origin: box
\* origin (0, -80), box 60 x 160, from -180 sweeping -90
C6_Witness ==
    /\ CornerBuilt
    /\ cpath.shape = "arc" /\ cpath.kind = "top-left" /\ cpath.clockwise
    /\ cpath.start_point = <<0, 0>>
    /\ cpath.obj.segs[1].box = <<0, -Px(80), Px(60), Px(160)>>
    /\ cpath.obj.segs[1].start = -180
    /\ cpath.obj.segs[1].sweep = -90

---------------------------------------------------------------------------
(* Properties of NotchPath, under SpecNotch *)

\* the notch path constructed last was built without an error
NotchBuilt == npath.made /\ npath.obj.status = "ok"

\* unit vector of a direction: '+i' east, '-i' west, '+j' down, '-j' up
AxisVec(direction) ==
    CASE Lower(direction) = <<"+", "i">> -> <<1, 0>>
      [] Lower(direction) = <<"-", "i">> -> <<-1, 0>>
      [] Lower(direction) = <<"+", "j">> -> <<0, 1>>
      [] Lower(direction) = <<"-", "j">> -> <<0, -1>>

\* unit vector of a facing, the y axis pointing down
FacingVec(facing) ==
    CASE Lower(facing) = <<"u", "p">> -> <<0, -1>>
      [] Lower(facing) = <<"d", "o", "w", "n">> -> <<0, 1>>
      [] Lower(facing) = <<"l", "e", "f", "t">> -> <<-1, 0>>
      [] Lower(facing) = <<"r", "i", "g", "h", "t">> -> <<1, 0>>

\* the side of the W x H rectangle along unit vector u
Along(u, size) == Abs(u[1]) * size[1] + Abs(u[2]) * size[2]

\* the shape name and the factor of the notch constructed last
NotchName == ParseShape(npath.shape).name

NotchFactor == ParseShape(npath.shape).tf

\* tl = f * D and ts = (D - tl)/2 for factor f and span D, as exact values
ClaimTl == (NotchFactor.num * Along(AxisVec(npath.direction), npath.rect_size))
               \div NotchFactor.den

ClaimTs == (Along(AxisVec(npath.direction), npath.rect_size) - ClaimTl) \div 2

\* C2: every valid notch ends at start plus the full span along the
\* direction axis and zero across it: (+W,0) for '+i', (-W,0) for '-i',
\* (0,+H) for '+j', (0,-H) for '-j', whatever the shape, factor and facing.
C2_NotchEndsAfterFullSpan ==
    NotchBuilt =>
        LET a == AxisVec(npath.direction)
        IN  /\ Displacement(npath.obj) =
                   <<a[1] * npath.rect_size[1], a[2] * npath.rect_size[2]>>
            /\ npath.obj.start = npath.start_point

\* an arc notch of factor 0.7 and size 50 x 150 drawn upwards ('-j'), facing
\* left, ends 150 above its start
C2_Witness ==
    /\ NotchBuilt
    /\ npath.shape = <<"a", "r", "c", "/", "0", ".", "7">>
    /\ npath.direction = <<"-", "j">>
    /\ npath.facing = <<"l", "e", "f", "t">>
    /\ npath.rect_size = <<Px(50), Px(150)>>
    /\ npath.start_point = <<0, 0>>
    /\ npath.obj.cur = <<0, -Px(150)>>

\* C7: a 'trig' notch of factor f is exactly three lines: a spacing leg that
\* advances ts along the axis and the full H (horizontal) or W (vertical)
\* towards the facing side, the top that advances tl along the axis only,
\* and a spacing leg that advances ts and comes back, with tl = f * D and
\* ts = (D - tl)/2.  Size (200,50), 'trig/0.4', '+i', 'up' from (0,0) gives
\* [Line(60,-50), Line(80,0), Line(60,50)] and the final cursor (200,0).
C7_NotchTrigSegments ==
    /\ (NotchBuilt /\ NotchName = <<"t", "r", "i", "g">>) =>
           LET a == AxisVec(npath.direction)
               n == FacingVec(npath.facing)
               D == Along(a, npath.rect_size)
               P == Along(n, npath.rect_size)
               segs == npath.obj.segs
           IN  /\ ClaimTl * NotchFactor.den = NotchFactor.num * D
               /\ 2 * ClaimTs = D - ClaimTl
               /\ Len(segs) = 3
               /\ \A i \in 1..3 : segs[i].type = "Line"
               /\ <<segs[1].dx, segs[1].dy>> =
                      <<ClaimTs * a[1] + P * n[1], ClaimTs * a[2] + P * n[2]>>
               /\ <<segs[2].dx, segs[2].dy>> = <<ClaimTl * a[1], ClaimTl * a[2]>>
               /\ <<segs[3].dx, segs[3].dy>> =
                      <<ClaimTs * a[1] - P * n[1], ClaimTs * a[2] - P * n[2]>>
    /\ (/\ npath.made
        /\ npath.start_point = <<0, 0>>
        /\ npath.rect_size = <<Px(200), Px(50)>>
        /\ npath.shape = <<"t", "r", "i", "g", "/", "0", ".", "4">>
        /\ npath.direction = <<"+", "i">>
        /\ npath.facing = <<"u", "p">>) =>
           /\ npath.obj.status = "ok"
           /\ [i \in 1..Len(npath.obj.segs) |->
                  <<npath.obj.segs[i].type, npath.obj.segs[i].dx,
                    npath.obj.segs[i].dy>>] =
              <<<<"Line", Px(60), -Px(50)>>, <<"Line", Px(80), 0>>,
                <<"Line", Px(60), Px(50)>>>>
           /\ npath.obj.cur = <<Px(200), 0>>

\* a 'trig' notch of factor 0.37 and size 77 x 33 drawn downwards ('+j'),
\* facing right: ts = 10.395, tl = 12.21, the first leg goes 77 to the right
C7_Witness ==
    /\ NotchBuilt
    /\ npath.shape = <<" ", "t", "r", "i", "g", " ", "/", " ", "0", ".", "3", "7", " ">>
    /\ npath.direction = <<"+", "j">>
    /\ npath.facing = <<"r", "i", "g", "h", "t">>
    /\ npath.rect_size = <<Px(77), Px(33)>>
    /\ Len(npath.obj.segs) = 3
    /\ npath.obj.segs[1].dx = Px(77)
    /\ npath.obj.segs[1].dy = 2079
    /\ npath.obj.segs[2].dy = 2442

\* C8: an 'arc' notch is arc, line, arc; both arcs are quarter arcs of an
\* ellipse of radii (W, ts) for a vertical direction or (ts, H) for a
\* horizontal one; the line advances tl along the axis and lies at distance
\* exactly W (vertical) or H (horizontal) from the start point, on the
\* facing side.
C8_NotchArcSegments ==
    (NotchBuilt /\ NotchName = <<"a", "r", "c">>) =>
        LET a == AxisVec(npath.direction)
            n == FacingVec(npath.facing)
            P == Along(n, npath.rect_size)
            segs == npath.obj.segs
            \* the box of an ellipse of radius ts along the axis, P across
            bw == 2 * (Abs(a[1]) * ClaimTs + Abs(n[1]) * P)
            bh == 2 * (Abs(a[2]) * ClaimTs + Abs(n[2]) * P)
            \* signed distance of a point from start, towards the facing side
            off(pt) == (pt[1] - npath.start_point[1]) * n[1]
                           + (pt[2] - npath.start_point[2]) * n[2]
        IN  /\ Len(segs) = 3
            /\ <<segs[1].type, segs[2].type, segs[3].type>> =
                   <<"Arc", "Line", "Arc">>
            /\ \A i \in {1, 3} : /\ Abs(segs[i].sweep) = 90
                                 /\ segs[i].box[3] = bw
                                 /\ segs[i].box[4] = bh
            /\ <<segs[2].dx, segs[2].dy>> = <<ClaimTl * a[1], ClaimTl * a[2]>>
            /\ off(segs[2].from) = P
            /\ off(segs[2].to) = P

\* an arc notch of factor 0.7 and size 200 x 50 drawn to the left ('-i'),
\* facing down: the middle line is 140 long and lies 50 below the start
C8_Witness ==
    /\ NotchBuilt
    /\ npath.shape = <<"a", "r", "c", "/", "0", ".", "7">>
    /\ npath.direction = <<"-", "i">>
    /\ npath.facing = <<"d", "o", "w", "n">>
    /\ npath.rect_size = <<Px(200), Px(50)>>
    /\ npath.start_point = <<0, 0>>
    /\ npath.obj.segs[2].dx = -Px(140)
    /\ npath.obj.segs[2].from = <<-Px(30), Px(50)>>
    /\ npath.obj.segs[1].box[3] = Px(60)

\* direction and facing of the notch constructed last are a valid pair once
\* lower-cased, so that its shape alone decides whether it is built
DirectionFacingValid ==
    /\ Lower(npath.direction) \in
           {<<"+", "i">>, <<"-", "i">>, <<"+", "j">>, <<"-", "j">>}
    /\ Lower(npath.facing) \in
           (IF Lower(npath.direction)[2] = "i"
            THEN {<<"u", "p">>, <<"d", "o", "w", "n">>}
            ELSE {<<"l", "e", "f", "t">>, <<"r", "i", "g", "h", "t">>})

\* the length of the middle segment of a built notch: tl, from which the
\* factor the constructor used is read back
TopDrawn == Abs(npath.obj.segs[2].dx) + Abs(npath.obj.segs[2].dy)

\* name[/factor]: the name is what precedes the first slash, the factor text
\* everything that follows it
NameOf(text) ==
    LET s == Strip(text)
    IN  IF Count(s, "/") = 0 THEN s
        ELSE Strip(SubSeq(s, 1, (CHOOSE i \in 1..Len(s) :
                 s[i] = "/" /\ \A j \in 1..(i - 1) : s[j] # "/") - 1))

FactorTextOf(text) ==
    LET s == Strip(text)
    IN  IF Count(s, "/") = 0 THEN <<>>
        ELSE SubSeq(s, (CHOOSE i \in 1..Len(s) :
                 s[i] = "/" /\ \A j \in 1..(i - 1) : s[j] # "/") + 1, Len(s))

\* C9: NotchPath parses shape as name[/factor]: the factor is 0.0 without a
\* slash or with nothing but blanks after it; construction fails when the
\* factor text is not a number, when the factor is outside [0,1] or when the
\* name is neither 'trig' nor 'arc'; every other shape is accepted, with the
\* factor it names.
C9_ShapeIsNameSlashFactor ==
    (npath.made /\ DirectionFacingValid) =>
        LET name == NameOf(npath.shape)
            ftext == FactorTextOf(npath.shape)
            blank == Strip(ftext) = <<>>
            f == IF blank THEN [ok |-> TRUE, num |-> 0, den |-> 1]
                 ELSE ParseFloat(ftext)
            D == Along(AxisVec(npath.direction), npath.rect_size)
        IN  IF \/ name \notin {<<"t", "r", "i", "g">>, <<"a", "r", "c">>}
               \/ ~f.ok
               \/ f.num < 0
               \/ f.num > f.den
            THEN npath.obj.status = "InvalidArgument"
            ELSE /\ npath.obj.status = "ok"
                 /\ TopDrawn * f.den = f.num * D

\* 'trig/0.5/x' is built, as a notch of factor 0.5: the top of a 200 wide
\* notch is 100 long
C9_Witness ==
    /\ npath.made
    /\ npath.shape = <<"t", "r", "i", "g", "/", "0", ".", "5", "/", "x">>
    /\ npath.direction = <<"+", "i">>
    /\ npath.facing = <<"u", "p">>
    /\ npath.rect_size = <<Px(200), Px(50)>>
    /\ npath.obj.status = "ok"
    /\ TopDrawn = Px(100)

\* C10 as stated: NotchPath is built only when facing is in {up, down} for
\* the directions '+i'/'-i' and in {left, right} for '+j'/'-j'; every other
\* pair and every direction outside {'+i','-i','+j','-j'} fails, before any
\* segment is emitted.
C10_Original ==
    npath.made =>
        /\ npath.obj.status = "ok" =>
               \/ /\ npath.direction \in {<<"+", "i">>, <<"-", "i">>}
                  /\ npath.facing \in {<<"u", "p">>, <<"d", "o", "w", "n">>}
               \/ /\ npath.direction \in {<<"+", "j">>, <<"-", "j">>}
                  /\ npath.facing \in
                         {<<"l", "e", "f", "t">>, <<"r", "i", "g", "h", "t">>}
        /\ npath.obj.status # "ok" => npath.obj.segs = <<>>

\* C10, amended: direction and facing are compared after lower-casing.
\* NotchPath is built only when the lower-cased direction is one of '+i',
\* '-i', '+j', '-j' and the lower-cased facing is in {up, down} for '+i'/'-i'
\* and in {left, right} for '+j'/'-j'; any other direction fails on
\* 'direction', any other facing of a valid direction fails on 'facing', and
\* a failed construction has emitted no segment and has not initialised the
\* path.
C10_DirectionFacingValidated ==
    npath.made =>
        /\ npath.obj.status = "ok" => DirectionFacingValid
        /\ ~DirectionFacingValid =>
               /\ npath.obj.status = "InvalidArgument"
               /\ npath.obj.arg =
                      IF Lower(npath.direction) \in
                          {<<"+", "i">>, <<"-", "i">>, <<"+", "j">>, <<"-", "j">>}
                      THEN "facing" ELSE "direction"
        /\ npath.obj.status # "ok" =>
               /\ npath.obj.segs = <<>>
               /\ ~npath.obj.inited

\* '+i' with 'left' has failed on 'facing' with no segment, although the
\* shape 'trig/0.4' is valid
C10_Witness ==
    /\ npath.made
    /\ npath.direction = <<"+", "i">>
    /\ npath.facing = <<"l", "e", "f", "t">>
    /\ npath.shape = <<"t", "r", "i", "g", "/", "0", ".", "4">>
    /\ npath.obj.status = "InvalidArgument"
    /\ npath.obj.arg = "facing"
    /\ npath.obj.segs = <<>>

---------------------------------------------------------------------------
(* Properties of the example window, under Spec *)

\* the start point of the outline: GxPainterPath(QPointF(100, 0))
OutlineStart == <<Px(100), 0>>

\* C3: in every state the UI edit handlers reach from the default records,
\* the outline rebuilt by updateMetrics is closed: the cursor after the
\* top-left corner is the start point (100, 0).  This holds of every rebuild
\* a handler made, the ones of nested valueChanged callbacks included.
C3_OutlineClosed ==
    /\ ~raised
    /\ border_path.status = "ok"
    /\ border_path.start = OutlineStart
    /\ border_path.cur = OutlineStart
    /\ \A i \in 1..Len(rebuilds) : /\ rebuilds[i].start = OutlineStart
                                   /\ rebuilds[i].cur = OutlineStart

\* after the width of 'tl' was set to 30 (and 'bl' followed, with a rebuild
\* of its own) and the width of 'top' to 300, the outline is closed
C3_Witness ==
    /\ edits = 2
    /\ corner_size["tl"][1] = 30
    /\ corner_size["bl"][1] = 30
    /\ notch_data["top"].size[1] = 300
    /\ Len(rebuilds) = 2
    /\ border_path.cur = OutlineStart
    /\ Len(border_path.segs) > 16

\* top and bottom notch records have the same width, left and right the
\* same height
OpposingNotchesEqual ==
    /\ notch_data["top"].size[1] = notch_data["bottom"].size[1]
    /\ notch_data["left"].size[2] = notch_data["right"].size[2]

\* the edit moved the slider of dimension d of notch n
SliderMoved(n, d) == slider'[<<"notch", n, d>>] # slider[<<"notch", n, d>>]

\* C4: after any sequence of notch size edits, nested valueChanged callbacks
\* included, top and bottom have equal width and left and right equal
\* height; a width edit of top or bottom leaves both their heights as they
\* were, and a height edit of left or right leaves both their widths.
C4_OpposingNotchesFollow ==
    /\ []OpposingNotchesEqual
    /\ [][/\ (SliderMoved("top", "w") \/ SliderMoved("bottom", "w")) =>
                /\ notch_data'["top"].size[2] = notch_data["top"].size[2]
                /\ notch_data'["bottom"].size[2] = notch_data["bottom"].size[2]
                /\ notch_data'["top"].size[1] = slider'[<<"notch", "top", "w">>]
                /\ notch_data'["bottom"].size[1] =
                       slider'[<<"notch", "bottom", "w">>]
          /\ (SliderMoved("left", "h") \/ SliderMoved("right", "h")) =>
                /\ notch_data'["left"].size[1] = notch_data["left"].size[1]
                /\ notch_data'["right"].size[1] = notch_data["right"].size[1]
                /\ notch_data'["left"].size[2] = slider'[<<"notch", "left", "h">>]
                /\ notch_data'["right"].size[2] =
                       slider'[<<"notch", "right", "h">>]]_vars

\* the width of 'bottom' was set to 0 and the height of 'right' to 80: 'top'
\* is 0 wide and 'left' 80 high, heights and widths as constructed
C4_Witness ==
    /\ edits = 2
    /\ notch_data["top"].size = <<0, 50>>
    /\ notch_data["bottom"].size = <<0, 50>>
    /\ notch_data["left"].size = <<50, 80>>
    /\ notch_data["right"].size = <<50, 80>>
    /\ slider[<<"notch", "top", "w">>] = 0
    /\ slider[<<"notch", "left", "h">>] = 80

\* C5: after construction and after every completed edit, _width and
\* _height are the width and height of the bounding box of border_path, and
\* border_path is the outline the current records build; no handler returns
\* with a stale path or a stale size.
C5_MetricsCurrent ==
    /\ ~raised
    /\ border_path = BuildOutline(State)
    /\ _width = BoundingRect(border_path).width
    /\ _height = BoundingRect(border_path).height

\* the left notch was turned to face left and the top notch to face down:
\* the outline is 50 wider and 50 lower than the constructed one
C5_Witness ==
    /\ edits = 2
    /\ notch_data["left"].facing = <<"l", "e", "f", "t">>
    /\ notch_data["top"].facing = <<"d", "o", "w", "n">>
    /\ border_path = BuildOutline(State)
    /\ _width = Constructed._width + Px(50)
    /\ _height = Constructed._height - Px(50)

---------------------------------------------------------------------------
(* Further properties of CornerPath, under SpecCorner *)

\* C11: CornerPath fails with an invalid-argument error whenever shape is
\* not one of trig, arc, rect or kind is not one of bottom-left,
\* bottom-right, top-left, top-right; the failure comes before the path is
\* initialised or any segment is emitted, and a path that is built is never
\* an empty one.
C11_CornerArgumentsValidated ==
    cpath.made =>
        /\ (\/ cpath.shape \notin {"trig", "arc", "rect"}
            \/ cpath.kind \notin
                   {"bottom-left", "bottom-right", "top-left", "top-right"}) =>
               /\ cpath.obj.status = "InvalidArgument"
               /\ cpath.obj.arg \in {"kind", "shape"}
               /\ ~cpath.obj.inited
               /\ cpath.obj.segs = <<>>
        /\ cpath.obj.status = "ok" =>
               /\ cpath.obj.inited
               /\ Len(cpath.obj.segs) >= 1
        /\ cpath.obj.status \in {"ok", "InvalidArgument"}

\* the shape 'circle' of a top-left corner has failed on 'shape', with no
\* segment
C11_Witness ==
    /\ cpath.made
    /\ cpath.shape = "circle"
    /\ cpath.kind = "top-left"
    /\ cpath.size = <<Px(50), Px(50)>>
    /\ cpath.obj.status = "InvalidArgument"
    /\ cpath.obj.arg = "shape"
    /\ cpath.obj.segs = <<>>

\* C12: a 'rect' corner is exactly two axis-aligned lines, one horizontal of
\* length W and one vertical of length H; the vertex they share is one of
\* the two vertices of the corner rectangle that are neither its start nor
\* its end (and differs from both when W and H are positive).  Top-right,
\* clockwise, size (50,50) from (0,0) gives [Line(+50,0), Line(0,+50)] and
\* the final cursor (50,50).
C12_CornerRectSegments ==
    /\ (CornerBuilt /\ cpath.shape = "rect") =>
           LET segs == cpath.obj.segs
               s == cpath.obj.start
               e == cpath.obj.cur
               W == cpath.size[1]
               H == cpath.size[2]
               horizontal(g) == g.dy = 0 /\ Abs(g.dx) = W
               vertical(g) == g.dx = 0 /\ Abs(g.dy) = H
           IN  /\ Len(segs) = 2
               /\ segs[1].type = "Line" /\ segs[2].type = "Line"
               /\ \/ horizontal(segs[1]) /\ vertical(segs[2])
                  \/ vertical(segs[1]) /\ horizontal(segs[2])
               /\ segs[1].from = s
               /\ segs[1].to = segs[2].from
               /\ segs[2].to = e
               /\ segs[1].to \in {<<s[1], e[2]>>, <<e[1], s[2]>>}
               /\ (W > 0 /\ H > 0) => segs[1].to \notin {s, e}
    /\ (/\ cpath.made
        /\ cpath.shape = "rect" /\ cpath.kind = "top-right" /\ cpath.clockwise
        /\ cpath.size = <<Px(50), Px(50)>>
        /\ cpath.start_point = <<0, 0>>) =>
           /\ cpath.obj.status = "ok"
           /\ [i \in 1..Len(cpath.obj.segs) |->
                  <<cpath.obj.segs[i].type, cpath.obj.segs[i].dx,
                    cpath.obj.segs[i].dy>>] =
              <<<<"Line", Px(50), 0>>, <<"Line", 0, Px(50)>>>>
           /\ cpath.obj.cur = <<Px(50), Px(50)>>

\* a counter-clockwise bottom-left rect corner of size 30 x 80 away from the
\* origin goes 80 down, then 30 to the right
C12_Witness ==
    /\ CornerBuilt
    /\ cpath.shape = "rect" /\ cpath.kind = "bottom-left" /\ ~cpath.clockwise
    /\ cpath.size = <<Px(30), Px(80)>>
    /\ cpath.start_point = <<Px(300), -Px(20)>>
    /\ cpath.obj.segs[1].to = <<Px(300), Px(60)>>
    /\ cpath.obj.cur = <<Px(330), Px(60)>>

---------------------------------------------------------------------------
(* Further properties of NotchPath, under SpecNotch *)

\* shape texts that name the factor 0.0, or none, and the factor 1.0
FactorZeroTexts ==
    {<<"t", "r", "i", "g">>, <<"a", "r", "c">>, <<"t", "r", "i", "g", "/">>,
     <<"a", "r", "c", "/", " ">>, <<"t", "r", "i", "g", "/", "0">>,
     <<"a", "r", "c", "/", "0", ".", "0">>}

FactorOneTexts ==
    {<<"t", "r", "i", "g", "/", "1", ".", "0">>, <<"a", "r", "c", "/", "1">>}

\* how far segment i of the notch advances along unit vector u
Advance(i, u) ==
    (npath.obj.segs[i].to[1] - npath.obj.segs[i].from[1]) * u[1]
        + (npath.obj.segs[i].to[2] - npath.obj.segs[i].from[2]) * u[2]

\* C13: with factor 0.0 the top has length 0 and each spacing run covers
\* half the span, so the 'trig' notch is a pure triangle with its apex at
\* mid-span; with factor 1.0 the spacing is 0 and the top covers the full
\* span, so the legs only go across and the notch is a straight top offset
\* by the full depth.
C13_FactorBoundaries ==
    NotchBuilt =>
        LET a == AxisVec(npath.direction)
            n == FacingVec(npath.facing)
            D == Along(a, npath.rect_size)
            P == Along(n, npath.rect_size)
            trig == NotchName = <<"t", "r", "i", "g">>
        IN  /\ npath.shape \in FactorZeroTexts =>
                /\ npath.obj.segs[2].to = npath.obj.segs[2].from
                /\ TopDrawn = 0
                /\ 2 * Advance(1, a) = D
                /\ 2 * Advance(3, a) = D
                /\ trig => /\ Advance(1, n) = P
                           /\ Advance(3, n) = -P
            /\ npath.shape \in FactorOneTexts =>
                /\ Advance(1, a) = 0
                /\ Advance(3, a) = 0
                /\ Advance(2, a) = D
                /\ Advance(2, n) = 0
                /\ TopDrawn = D
                /\ Advance(1, n) = P
                /\ Advance(3, n) = -P

\* 'trig' without a factor, 200 x 50, '+i' facing up: a triangle with its
\* apex at (100, -50)
C13_Witness ==
    /\ NotchBuilt
    /\ npath.shape = <<"t", "r", "i", "g">>
    /\ npath.direction = <<"+", "i">>
    /\ npath.facing = <<"u", "p">>
    /\ npath.rect_size = <<Px(200), Px(50)>>
    /\ npath.start_point = <<0, 0>>
    /\ npath.obj.segs[1].to = <<Px(100), -Px(50)>>
    /\ npath.obj.segs[2].to = <<Px(100), -Px(50)>>
    /\ npath.obj.cur = <<Px(200), 0>>

---------------------------------------------------------------------------
(* Properties of the arcs of corner and notch paths, under SpecPaths *)

\* the path constructed last and whether it was built
LastPath == IF cpath.made THEN cpath.obj ELSE npath.obj

PathBuilt == (cpath.made \/ npath.made) /\ LastPath.status = "ok"

\* the indexes of the arcs among the segments of a path
ArcsOf(obj) == {i \in 1..Len(obj.segs) : obj.segs[i].type = "Arc"}

\* the cursor the segment after segment i starts from, the final cursor
\* after the last segment
CursorAfter(obj, i) == IF i < Len(obj.segs) THEN obj.segs[i + 1].from
                       ELSE obj.cur

\* the point at angle theta of the ellipse inscribed in a box, with
\* x = cx + rx*cos(theta) and y = cy + sy*ry*sin(theta): sy = 1 is the
\* parametrization with y growing upwards, sy = -1 the one of a painter
\* path, whose y axis points down
PointAt(box, theta, sy) ==
    LET rx == box[3] \div 2
        ry == box[4] \div 2
        c == CASE theta % 360 = 0 -> 1 [] theta % 360 = 90 -> 0
               [] theta % 360 = 180 -> -1 [] theta % 360 = 270 -> 0
        sn == CASE theta % 360 = 0 -> 0 [] theta % 360 = 90 -> 1
                [] theta % 360 = 180 -> 0 [] theta % 360 = 270 -> -1
    IN  <<box[1] + rx + rx * c, box[2] + ry + sy * ry * sn>>

\* where the geometry of the shape puts the end of arc i: the opposite
\* vertex for a corner; for a notch the end of the first spacing run, on
\* the facing side, and the end of the span
ExpectedArcEnd(i) ==
    IF cpath.made
    THEN LET sg == TourSigns(cpath.kind, cpath.clockwise)
         IN  <<cpath.start_point[1] + sg[1] * cpath.size[1],
               cpath.start_point[2] + sg[2] * cpath.size[2]>>
    ELSE LET a == AxisVec(npath.direction)
             n == FacingVec(npath.facing)
             D == Along(a, npath.rect_size)
             P == Along(n, npath.rect_size)
         IN  IF i = 1
             THEN <<npath.start_point[1] + ClaimTs * a[1] + P * n[1],
                    npath.start_point[2] + ClaimTs * a[2] + P * n[2]>>
             ELSE <<npath.start_point[1] + D * a[1],
                    npath.start_point[2] + D * a[2]>>

\* C14 as stated: the cursor after an arc is the terminal point
\* x = cx + rx*cos(theta), y = cy + ry*sin(theta) at theta = start + sweep,
\* for each corner arc and each notch arc, and the next segment starts there.
C14_Original ==
    PathBuilt =>
        \A i \in ArcsOf(LastPath) :
            LET g == LastPath.segs[i]
            IN  /\ g.to = PointAt(g.box, g.start + g.sweep, 1)
                /\ CursorAfter(LastPath, i) = PointAt(g.box, g.start + g.sweep, 1)
                /\ g.to = ExpectedArcEnd(i)

\* C14, amended: the y axis of the path points down, so the terminal point
\* is x = cx + rx*cos(theta), y = cy - ry*sin(theta) at theta = start + sweep.
\* For each of the 8 corner arcs and 16 notch arcs this point is the cursor
\* the next segment starts from, and it is where the shape needs it: the
\* opposite vertex of a corner, the end of the spacing run and the end of
\* the span of a notch.
C14_ArcTerminalPoint ==
    PathBuilt =>
        \A i \in ArcsOf(LastPath) :
            LET g == LastPath.segs[i]
            IN  /\ g.to = PointAt(g.box, g.start + g.sweep, -1)
                /\ CursorAfter(LastPath, i) = PointAt(g.box, g.start + g.sweep, -1)
                /\ g.to = ExpectedArcEnd(i)

\* the clockwise bottom-right arc corner of size 30 x 80 from the origin
\* ends at theta = -90, the bottom of its ellipse: (-30, 80), not (-30, -80)
C14_Witness ==
    /\ cpath.made /\ PathBuilt
    /\ cpath.shape = "arc" /\ cpath.kind = "bottom-right" /\ cpath.clockwise
    /\ cpath.size = <<Px(30), Px(80)>>
    /\ cpath.start_point = <<0, 0>>
    /\ LastPath.segs[1].start + LastPath.segs[1].sweep = -90
    /\ LastPath.cur = <<-Px(30), Px(80)>>
    /\ PointAt(LastPath.segs[1].box, -90, -1) = <<-Px(30), Px(80)>>
    /\ PointAt(LastPath.segs[1].box, -90, 1) = <<-Px(30), -Px(80)>>

---------------------------------------------------------------------------
(* Further properties of the example window, under Spec *)

\* the order of assembly: lines by (dx, dy) in pixels, notches by record and
\* direction, corners by record and kind
TourOrder ==
    <<<<"line", 100, 0>>, <<"notch", "top", <<"+", "i">>>>,
      <<"line", 100, 0>>, <<"corner", "tr", "top-right">>,
      <<"line", 0, 50>>, <<"notch", "right", <<"+", "j">>>>,
      <<"line", 0, 50>>, <<"corner", "br", "bottom-right">>,
      <<"line", -100, 0>>, <<"notch", "bottom", <<"-", "i">>>>,
      <<"line", -100, 0>>, <<"corner", "bl", "bottom-left">>,
      <<"line", 0, -50>>, <<"notch", "left", <<"-", "j">>>>,
      <<"line", 0, -50>>, <<"corner", "tl", "top-left">>>>

\* how far item k of the tour moves the cursor: a line by its increments, a
\* notch by its full span along its direction, a clockwise corner to the
\* opposite vertex of its rectangle
TourMove(k) ==
    LET t == TourOrder[k]
    IN  CASE t[1] = "line" -> <<Px(t[2]), Px(t[3])>>
          [] t[1] = "notch" ->
                 <<AxisVec(t[3])[1] * Px(notch_data[t[2]].size[1]),
                   AxisVec(t[3])[2] * Px(notch_data[t[2]].size[2])>>
          [] t[1] = "corner" ->
                 <<TourSigns(t[3], TRUE)[1] * Px(corner_size[t[2]][1]),
                   TourSigns(t[3], TRUE)[2] * Px(corner_size[t[2]][2])>>

\* the cursors of the outline on the tour: the start, then the cursor after
\* each of the first n items
RECURSIVE TourCursors(_)
TourCursors(n) ==
    IF n = 0 THEN <<OutlineStart>>
    ELSE Bind(<<TourCursors(n - 1), TourMove(n)>>, LAMBDA v :
             Append(v[1], <<v[1][n][1] + v[2][1], v[1][n][2] + v[2][2]>>))

\* item k of the tour as a path of its own, started at cursor c
TourPiece(k, c) ==
    LET t == TourOrder[k]
    IN  CASE t[1] = "line" -> LineToInc(NewPath(c), Px(t[2]), Px(t[3]))
          [] t[1] = "notch" ->
                 NotchPath(c, <<Px(notch_data[t[2]].size[1]),
                                Px(notch_data[t[2]].size[2])>>,
                           notch_data[t[2]].shape \o <<"/">>
                               \o FormatFloat(notch_data[t[2]].base_fc),
                           t[3], notch_data[t[2]].facing)
          [] t[1] = "corner" ->
                 CornerPath(c, <<Px(corner_size[t[2]][1]),
                                 Px(corner_size[t[2]][2])>>,
                            corner_shape[t[2]], t[3], TRUE)

\* the pieces of the tour, piece k started at cursor at[k]
TourPieces(at) == [k \in 1..Len(TourOrder) |-> TourPiece(k, at[k])]

\* the segments of the first n pieces, one after the other
RECURSIVE PiecesJoined(_, _)
PiecesJoined(pieces, n) ==
    IF n = 0 THEN <<>> ELSE PiecesJoined(pieces, n - 1) \o pieces[n].segs

\* C15: updateMetrics assembles the outline from (100, 0) in the fixed
\* order line +100, top notch '+i', line +100, top-right corner, line +50
\* down, right notch '+j', line +50 down, bottom-right corner, line -100,
\* bottom notch '-i', line -100, bottom-left corner, line 50 up, left notch
\* '-j', line 50 up, top-left corner, every corner clockwise; each notch and
\* corner is built from the cursor of the outline at the moment it is
\* connected, so nothing joins them but their own segments, and the cursor
\* after connecting is the final cursor of the piece.
C15_AssemblyOrder ==
    \E at \in {TourCursors(Len(TourOrder))} :
        \E pieces \in {TourPieces(at)} :
            /\ border_path.start = OutlineStart
            /\ \A k \in 1..Len(TourOrder) :
                   /\ pieces[k].status = "ok"
                   /\ pieces[k].start = at[k]
                   /\ pieces[k].cur = at[k + 1]
            /\ border_path.segs = PiecesJoined(pieces, Len(TourOrder))
            /\ border_path.cur = at[Len(TourOrder) + 1]

\* after the right notch was made 80 high and the top-right corner a 'trig'
\* one, the bottom-right corner starts 50 + 80 + 50 below the end of the
\* top-right corner
C15_Witness ==
    /\ edits = 2
    /\ notch_data["right"].size[2] = 80
    /\ notch_data["left"].size[2] = 80
    /\ corner_shape["tr"] = "trig"
    /\ TourCursors(7)[5] = <<Px(550), Px(50)>>
    /\ TourCursors(7)[8] = <<Px(550), Px(230)>>
    /\ border_path.segs[Len(border_path.segs)].to = OutlineStart

---------------------------------------------------------------------------
(* The two windings of a corner, under SpecCorner *)

\* C16: for a fixed kind, size and shape the corner drawn with the other
\* winding from the final cursor of a corner path ends at that path's start
\* point and retraces it: the same line for 'trig', the same ellipse from
\* the other end with the opposite sweep for 'arc', and the same
\* intermediate vertex for 'rect'.
C16_WindingsAreReverses ==
    CornerBuilt =>
        LET fwd == cpath.obj
            back == cpath.back
            n == Len(fwd.segs)
        IN  /\ back.status = "ok"
            /\ back.start = fwd.cur
            /\ back.cur = fwd.start
            /\ Len(back.segs) = n
            /\ \A i \in 1..n :
                   /\ back.segs[i].type = fwd.segs[n + 1 - i].type
                   /\ back.segs[i].from = fwd.segs[n + 1 - i].to
                   /\ back.segs[i].to = fwd.segs[n + 1 - i].from
            /\ cpath.shape = "rect" => back.segs[1].to = fwd.segs[1].to
            /\ cpath.shape = "arc" =>
                   /\ back.segs[1].box = fwd.segs[1].box
                   /\ back.segs[1].sweep = -fwd.segs[1].sweep
                   /\ (back.segs[1].start - fwd.segs[1].start
                           - fwd.segs[1].sweep) % 360 = 0

\* the clockwise top-right rect corner of size 30 x 80 from the origin and
\* its counter-clockwise return, both through (30, 0)
C16_Witness ==
    /\ CornerBuilt
    /\ cpath.shape = "rect" /\ cpath.kind = "top-right" /\ cpath.clockwise
    /\ cpath.size = <<Px(30), Px(80)>>
    /\ cpath.start_point = <<0, 0>>
    /\ cpath.obj.cur = <<Px(30), Px(80)>>
    /\ cpath.obj.segs[1].to = <<Px(30), 0>>
    /\ cpath.back.start = <<Px(30), Px(80)>>
    /\ cpath.back.segs[1].to = <<Px(30), 0>>
    /\ cpath.back.cur = <<0, 0>>

---------------------------------------------------------------------------
(* Where arcs begin, under SpecPaths *)

\* C17: every arc of a corner path and of a notch path starts exactly at
\* the cursor of the path when it is drawn: the point of its ellipse at its
\* start angle (y axis down, positive angles counter-clockwise) is the
\* cursor, so no joining segment is needed, and every segment begins where
\* the one before it ended, the first at the start point.
C17_ArcsStartAtCursor ==
    PathBuilt =>
        LET segs == LastPath.segs
        IN  /\ \A i \in ArcsOf(LastPath) :
                   /\ PointAt(segs[i].box, segs[i].start, -1) = segs[i].from
                   /\ segs[i].begin = segs[i].from
                   /\ Abs(segs[i].sweep) = 90
            /\ \A i \in 1..Len(segs) :
                   segs[i].from = IF i = 1 THEN LastPath.start
                                  ELSE segs[i - 1].to
            /\ Len(segs) > 0 => LastPath.cur = segs[Len(segs)].to

\* the second arc of an arc notch of factor 0.7, 50 x 150, '-j' facing
\* left, built away from the origin, begins at the cursor the middle line
\* left: 127.5 above the start, 50 to its left
C17_Witness ==
    /\ npath.made /\ PathBuilt
    /\ npath.shape = <<"a", "r", "c", "/", "0", ".", "7">>
    /\ npath.direction = <<"-", "j">>
    /\ npath.facing = <<"l", "e", "f", "t">>
    /\ npath.rect_size = <<Px(50), Px(150)>>
    /\ npath.start_point = <<Px(100), -Px(40)>>
    /\ LastPath.segs[3].type = "Arc"
    /\ LastPath.segs[3].from = <<Px(50), -Px(40) - 25500>>
    /\ PointAt(LastPath.segs[3].box, LastPath.segs[3].start, -1) =
           LastPath.segs[2].to

---------------------------------------------------------------------------
(* What the window feeds the constructors, under Spec *)

\* the shape text getNotch builds for notch n
ShapeTextOf(n) ==
    notch_data[n].shape \o <<"/">> \o FormatFloat(notch_data[n].base_fc)

\* C18: in every state the UI edits reach from the defaults, every record
\* is valid for the construction it feeds: each notch shape is 'trig' or
\* 'arc', each base factor lies in [0,1] and its text is read back as the
\* same factor, top and bottom face up or down, left and right face left or
\* right, each corner shape is trig, arc or rect, and the sizes are within
\* the slider ranges; no rebuild by updateMetrics has failed.
C18_RecordsAlwaysValid ==
    /\ \A n \in {"top", "bottom", "left", "right"} :
           /\ notch_data[n].shape \in {<<"t", "r", "i", "g">>, <<"a", "r", "c">>}
           /\ notch_data[n].base_fc \in 0..FcDen
           /\ notch_data[n].facing \in
                  (IF n \in {"top", "bottom"}
                   THEN {<<"u", "p">>, <<"d", "o", "w", "n">>}
                   ELSE {<<"l", "e", "f", "t">>, <<"r", "i", "g", "h", "t">>})
           /\ notch_data[n].size[1] \in 0..300
           /\ notch_data[n].size[2] \in 0..300
           /\ \E ps \in {ParseShape(ShapeTextOf(n))} :
                  /\ ps.ok
                  /\ ps.name = notch_data[n].shape
                  /\ ps.tf.num * FcDen = notch_data[n].base_fc * ps.tf.den
    /\ \A c \in {"tl", "tr", "bl", "br"} :
           /\ corner_shape[c] \in {"trig", "arc", "rect"}
           /\ corner_size[c][1] \in 0..100
           /\ corner_size[c][2] \in 0..100
    /\ ~raised
    /\ border_path.status = "ok"
    \* every position of a base slider gives a text that is read back as a
    \* factor in [0,1]: a fact of the formatting alone, looked at once
    /\ edits = 0 =>
           \A k \in 0..FcDen :
               \E pf \in {ParseFloat(FormatFloat(k))} :
                   pf.ok /\ InRange01(pf) /\ pf.num * FcDen = k * pf.den

\* the base factor of 'bottom' was moved to 1.0 and that of 'right' to
\* 0.05: their shape texts are 'arc/1.0' and 'arc/0.05', and the outline
\* was rebuilt
C18_Witness ==
    /\ edits = 2
    /\ notch_data["bottom"].base_fc = 100
    /\ notch_data["right"].base_fc = 5
    /\ ShapeTextOf("bottom") = <<"a", "r", "c", "/", "1", ".", "0">>
    /\ ShapeTextOf("right") = <<"a", "r", "c", "/", "0", ".", "0", "5">>
    /\ ~raised
    /\ Len(rebuilds) = 1
    /\ border_path.cur = OutlineStart

====
